---- MODULE Spec2Model ----
(***************************************************************************)
(* Model of mcp_calendar/server.py: the service-handle cache               *)
(* (get_calendar_service), the retry wrapper (_with_retries), the time     *)
(* normalisation helpers and the create_event / health tools.              *)
(*                                                                         *)
(* Python's None is modelled as 0 for handles, lock owners and status      *)
(* codes (Python's tests on them are truthiness tests or "is not None").   *)
(***************************************************************************)
EXTENDS Integers, Sequences, FiniteSets, TLC

\* ------------------------------------------------------------------ bounds
NumThreads == 3        \* worker threads racing in get_calendar_service
MaxCalls == 2          \* get_calendar_service calls per worker thread
NumTasks == 2          \* concurrent tool invocations
MaxClock == 1          \* highest millisecond reading of time.time()
MaxFaults == 1         \* remote failures injected in the concurrent runs
LastDay == 4           \* dates are day numbers 1..LastDay, the last is date.max
MaxAttendees == 2      \* longest attendees list
MaxOverrides == 2      \* longest reminders.overrides list

\* ------------------------------------------------------- program constants
retries == 3           \* _with_retries(_insert, retries=3, ...)
base_delay == 6        \* base_delay=0.6, in tenths of a time unit
MaxReminderMinutes == 40320   \* min(minutes, 40320)
DefaultMinutes == 10   \* r.get("minutes", 10) and the default policy

Threads == 1..NumThreads
Tasks == 1..NumTasks
OneTask == {1}
Procs == 1..(IF NumThreads > NumTasks THEN NumThreads ELSE NumTasks)

VARIABLES
  cache,      \* _service_cache: 0 is None, n > 0 the n-th handle built
  lock,       \* _service_lock: 0 is free, t the thread holding it
  builds,     \* number of executions of build(...)
  built,      \* handle build() returned to a thread, not yet stored
  pc,         \* position of each thread / invocation
  svc,        \* handle get_calendar_service returned to the thread
  calls,      \* get_calendar_service calls entered by the thread
  args,       \* arguments of the invocation
  event,      \* payload built by create_event
  attempt,    \* _inner's attempt counter
  outcomes,   \* outcome of each call of the wrapped function, in order
  sleeps,     \* number of time.sleep calls of the wrapper
  slept,      \* length of each sleep, in 1/100000 of a time unit
  wres,       \* how _inner ended: returned value or raised error
  result,     \* what the tool gave back to the protocol server
  overlapped, \* the invocation started while another one was in the wrapper
  loopOwner,  \* invocation holding the event-loop thread, 0 when it is free
  faults,     \* remote failures so far
  now,        \* int(time.time()*1000)
  pin,        \* input handed to a helper function called on its own
  pout        \* what the helper returned or raised

vars == <<cache, lock, builds, built, pc, svc, calls, args, event, attempt,
          outcomes, sleeps, slept, wres, result, overlapped, loopOwner,
          faults, now, pin, pout>>

cacheVars == <<cache, lock, builds, built, svc, calls>>
callVars == <<args, event, result, overlapped, loopOwner, now, pin, pout>>
retryVars == <<attempt, outcomes, sleeps, slept, wres, faults>>

None == [tag |-> "none"]

\* an exception raised by Credentials(...) or build(...)
BuildError ==
  [type |-> "BuildError", status_code |-> 0, resp_status |-> 0,
   htmlLink |-> "", n |-> 0]

\* ------------------------------------------------ get_calendar_service
\* "with _service_lock": the lock can be taken only when nobody holds it
LockAvailable_nomutex == TRUE
LockAvailable == lock = 0

\* the test repeated under the lock: "if _service_cache is not None"
InnerCheckHit_skipped == FALSE
InnerCheckHit == cache # 0

\* _insert: svc = get_calendar_service()
InsertCall(t) ==
  /\ pc[t] = "call"
  /\ pc' = [pc EXCEPT ![t] = "check1"]
  /\ calls' = [calls EXCEPT ![t] = @ + 1]
  /\ svc' = [svc EXCEPT ![t] = 0]
  /\ UNCHANGED <<cache, lock, builds, built, callVars, retryVars>>

\* unsynchronised test "if _service_cache is not None"
Check1(t) ==
  /\ pc[t] = "check1"
  /\ pc' = [pc EXCEPT ![t] = IF cache # 0 THEN "fastret" ELSE "acquire"]
  /\ UNCHANGED <<cacheVars, callVars, retryVars>>

\* "return _service_cache" of the fast path: the global is read again
FastReturn(t) ==
  /\ pc[t] = "fastret"
  /\ svc' = [svc EXCEPT ![t] = cache]
  /\ pc' = [pc EXCEPT ![t] = "exec"]
  /\ UNCHANGED <<cache, lock, builds, built, calls, callVars, retryVars>>

Acquire(t) ==
  /\ pc[t] = "acquire"
  /\ LockAvailable
  /\ lock' = t
  /\ pc' = [pc EXCEPT ![t] = "check2"]
  /\ UNCHANGED <<cache, builds, built, svc, calls, callVars, retryVars>>

Check2(t) ==
  /\ pc[t] = "check2"
  /\ pc' = [pc EXCEPT ![t] = IF InnerCheckHit THEN "lockret" ELSE "build"]
  /\ UNCHANGED <<cacheVars, callVars, retryVars>>

\* "return _service_cache" under the lock; leaving the with block releases it
LockedReturn(t) ==
  /\ pc[t] \in {"lockret", "slowret"}
  /\ svc' = [svc EXCEPT ![t] = cache]
  /\ lock' = 0
  /\ pc' = [pc EXCEPT ![t] = "exec"]
  /\ UNCHANGED <<cache, builds, built, calls, callVars, retryVars>>

\* a raising build that leaves the with block without releasing the lock
Build_keeplock(t, mayFail) ==
  /\ pc[t] = "build"
  /\ builds' = builds + 1
  /\ \/ /\ built' = [built EXCEPT ![t] = builds + 1]
        /\ pc' = [pc EXCEPT ![t] = "store"]
        /\ UNCHANGED <<lock, outcomes, faults>>
     \/ /\ mayFail
        /\ UNCHANGED lock
        /\ outcomes' = [outcomes EXCEPT ![t] =
                          Append(@, [BuildError EXCEPT !.n = Len(outcomes[t]) + 1])]
        /\ faults' = faults + 1
        /\ pc' = [pc EXCEPT ![t] = "caught"]
        /\ UNCHANGED built
  /\ UNCHANGED <<cache, svc, calls, callVars, attempt, sleeps, slept, wres>>

\* Credentials(...) and build("calendar", "v3", ...) return a new handle, or
\* raise: the with block then releases the lock and _inner catches the error
Build(t, mayFail) ==
  /\ pc[t] = "build"
  /\ builds' = builds + 1
  /\ \/ /\ built' = [built EXCEPT ![t] = builds + 1]
        /\ pc' = [pc EXCEPT ![t] = "store"]
        /\ UNCHANGED <<lock, outcomes, faults>>
     \/ /\ mayFail
        /\ lock' = 0
        /\ outcomes' = [outcomes EXCEPT ![t] =
                          Append(@, [BuildError EXCEPT !.n = Len(outcomes[t]) + 1])]
        /\ faults' = faults + 1
        /\ pc' = [pc EXCEPT ![t] = "caught"]
        /\ UNCHANGED built
  /\ UNCHANGED <<cache, svc, calls, callVars, attempt, sleeps, slept, wres>>

\* _service_cache = <the handle built>
Store(t) ==
  /\ pc[t] = "store"
  /\ cache' = built[t]
  /\ pc' = [pc EXCEPT ![t] = "slowret"]
  /\ UNCHANGED <<lock, builds, built, svc, calls, callVars, retryVars>>

\* a worker thread runs _insert once more (a retry or a later invocation)
Recall(t) ==
  /\ pc[t] = "exec"
  /\ calls[t] < MaxCalls
  /\ pc' = [pc EXCEPT ![t] = "call"]
  /\ UNCHANGED <<cacheVars, callVars, retryVars>>

GetService(t, mayFail) ==
  \/ InsertCall(t)
  \/ Check1(t)
  \/ FastReturn(t)
  \/ Acquire(t)
  \/ Check2(t)
  \/ LockedReturn(t)
  \/ Build(t, mayFail)
  \/ Store(t)

\* ------------------------------------------------------- time strings
\* A time string is described by what the code looks at: its length, its
\* number of hyphens, whether it holds a "T", what strptime(s, "%Y-%m-%d")
\* gives (ymd: a day number, 0 when it raises) and what
\* datetime.fromisoformat(s.replace("Z", "+00:00")) gives (iso, wall clock in
\* hours since day 0; aware tells whether it carries a UTC offset, off hours).
DEFAULT_TZ == "Asia/Seoul"
NoIso == [ok |-> FALSE, wall |-> 0, aware |-> FALSE, off |-> 0]

DateStr(d) ==
  [text |-> "date", len |-> 10, hyphens |-> 2, hasT |-> FALSE, ymd |-> d,
   iso |-> [ok |-> TRUE, wall |-> d * 24, aware |-> FALSE, off |-> 0]]

\* e.g. "2024-13-45": ten characters and two hyphens, but no calendar date
BadDateStr ==
  [text |-> "baddate", len |-> 10, hyphens |-> 2, hasT |-> FALSE, ymd |-> 0,
   iso |-> NoIso]

\* e.g. "2024-03-01T09:00:00+09:00" or "...Z" (offset 0)
TimeStr(d, h, off) ==
  [text |-> "time", len |-> 25, hyphens |-> 2, hasT |-> TRUE, ymd |-> 0,
   iso |-> [ok |-> TRUE, wall |-> d * 24 + h, aware |-> TRUE, off |-> off]]

\* e.g. "2024-03-01T09:00:00": no offset
NaiveTimeStr(d, h) ==
  [text |-> "time", len |-> 19, hyphens |-> 2, hasT |-> TRUE, ymd |-> 0,
   iso |-> [ok |-> TRUE, wall |-> d * 24 + h, aware |-> FALSE, off |-> 0]]

\* e.g. "2024-03-01T09:00:00Z": the Z is replaced by +00:00 before parsing
ZuluTimeStr(d, h) ==
  [text |-> "timeZ", len |-> 20, hyphens |-> 2, hasT |-> TRUE, ymd |-> 0,
   iso |-> [ok |-> TRUE, wall |-> d * 24 + h, aware |-> TRUE, off |-> 0]]

\* e.g. "tomorrow"
JunkStr ==
  [text |-> "junk", len |-> 8, hyphens |-> 0, hasT |-> FALSE, ymd |-> 0,
   iso |-> NoIso]

Raise(type, msg) == [ok |-> FALSE, type |-> type, msg |-> msg]

_is_all_day_str(s) == s.len = 10 /\ s.hyphens = 2 /\ ~s.hasT

_parse_when(s, tz) ==
  IF _is_all_day_str(s)
  THEN [ok |-> TRUE, key |-> "date", val |-> s, timeZone |-> tz]
  ELSE IF s.iso.ok
       THEN [ok |-> TRUE, key |-> "dateTime", val |-> s, timeZone |-> tz]
       ELSE Raise("ValueError", <<"Invalid ISO time format: ", s.text>>)

_is_all_day_dict(when) == when.key = "date"

\* datetime.strptime(s, "%Y-%m-%d").date(): 0 stands for its ValueError
_date_from_str(s) == s.ymd

\* _to_dt of _ensure_end_after_start: an all-day end is midnight at +09:00
_to_dt(when) ==
  IF when.key # "dateTime"
  THEN IF when.val.ymd = 0 THEN NoIso
       ELSE [ok |-> TRUE, wall |-> when.val.ymd * 24, aware |-> TRUE, off |-> 9]
  ELSE when.val.iso

\* datetime's "<=": naive against aware raises TypeError
Instant(dt) == dt.wall - dt.off

\* the repair test without the equal case
_ensure_end_after_start_strict(start_when, end_when) ==
  IF _is_all_day_dict(start_when) /\ _is_all_day_dict(end_when)
  THEN LET s == _date_from_str(start_when.val)
           e == _date_from_str(end_when.val)
       IN IF s = 0 \/ e = 0
          THEN Raise("ValueError", <<"time data does not match format">>)
          ELSE IF e < s /\ s + 1 > LastDay
          THEN Raise("OverflowError", <<"date value out of range">>)
          ELSE [ok |-> TRUE, start |-> start_when,
                end |-> IF e < s
                        THEN [end_when EXCEPT !.val = DateStr(s + 1)]
                        ELSE end_when]
  ELSE LET sd == _to_dt(start_when)
           ed == _to_dt(end_when)
       IN IF ~sd.ok \/ ~ed.ok
          THEN Raise("ValueError", <<"Invalid isoformat string">>)
          ELSE IF sd.aware # ed.aware
          THEN Raise("TypeError",
                     <<"can't compare offset-naive and offset-aware datetimes">>)
          ELSE IF Instant(ed) <= Instant(sd)
          THEN Raise("ValueError", <<"end_time must be after start_time">>)
          ELSE [ok |-> TRUE, start |-> start_when, end |-> end_when]

_ensure_end_after_start(start_when, end_when) ==
  IF _is_all_day_dict(start_when) /\ _is_all_day_dict(end_when)
  THEN LET s == _date_from_str(start_when.val)
           e == _date_from_str(end_when.val)
       IN IF s = 0 \/ e = 0
          THEN Raise("ValueError", <<"time data does not match format">>)
          ELSE IF e <= s /\ s + 1 > LastDay
          THEN Raise("OverflowError", <<"date value out of range">>)
          ELSE [ok |-> TRUE, start |-> start_when,
                end |-> IF e <= s
                        THEN [end_when EXCEPT !.val = DateStr(s + 1)]
                        ELSE end_when]
  ELSE LET sd == _to_dt(start_when)
           ed == _to_dt(end_when)
       IN IF ~sd.ok \/ ~ed.ok
          THEN Raise("ValueError", <<"Invalid isoformat string">>)
          ELSE IF sd.aware # ed.aware
          THEN Raise("TypeError",
                     <<"can't compare offset-naive and offset-aware datetimes">>)
          ELSE IF Instant(ed) <= Instant(sd)
          THEN Raise("ValueError", <<"end_time must be after start_time">>)
          ELSE [ok |-> TRUE, start |-> start_when, end |-> end_when]

\* tz = (timezone_str or DEFAULT_TZ).strip() or DEFAULT_TZ
EffectiveTz(timezone_str) ==
  IF timezone_str = "" THEN DEFAULT_TZ ELSE timezone_str

\* the call of _ensure_end_after_start left out
Normalize_nospan(a) ==
  LET sw == _parse_when(a.start_time, EffectiveTz(a.timezone_str))
      ew == _parse_when(a.end_time, EffectiveTz(a.timezone_str))
  IN IF ~sw.ok THEN sw
     ELSE IF ~ew.ok THEN ew
     ELSE [ok |-> TRUE, start |-> sw, end |-> ew]

\* lines 272-274 of create_event: the first failure is the one raised
Normalize(a) ==
  LET sw == _parse_when(a.start_time, EffectiveTz(a.timezone_str))
      ew == _parse_when(a.end_time, EffectiveTz(a.timezone_str))
  IN IF ~sw.ok THEN sw
     ELSE IF ~ew.ok THEN ew
     ELSE _ensure_end_after_start(sw, ew)

\* ------------------------------------------- attendees and reminders
\* Text is a sequence of characters; an optional argument is a record with
\* given = FALSE for None.
Absent == [given |-> FALSE, val |-> <<>>]
Given(v) == [given |-> TRUE, val |-> v]

\* str.strip()
RECURSIVE StripLeft(_)
StripLeft(x) == IF x # <<>> /\ Head(x) = " " THEN StripLeft(Tail(x)) ELSE x
RECURSIVE StripRight(_)
StripRight(x) ==
  IF x # <<>> /\ x[Len(x)] = " " THEN StripRight(SubSeq(x, 1, Len(x) - 1))
  ELSE x
Strip(x) == StripLeft(StripRight(x))

\* the for loop of _normalize_attendees
RECURSIVE CleanAttendees(_)
CleanAttendees(list) ==
  IF list = <<>> THEN <<>>
  ELSE LET e == Head(list)
           email == Strip(e)
       IN IF e = <<>> \/ email = <<>>
          THEN CleanAttendees(Tail(list))
          ELSE <<[email |-> email]>> \o CleanAttendees(Tail(list))

\* "return out": an empty list is handed back as it is
_normalize_attendees_nolist(attendees) ==
  IF ~attendees.given \/ attendees.val = <<>> THEN Absent
  ELSE Given(CleanAttendees(attendees.val))

_normalize_attendees(attendees) ==
  IF ~attendees.given \/ attendees.val = <<>> THEN Absent
  ELSE LET out == CleanAttendees(attendees.val)
       IN IF out = <<>> THEN Absent ELSE Given(out)

\* max(0, min(minutes, 40320))
Clamp_nofloor(minutes) ==
  IF minutes < MaxReminderMinutes THEN minutes ELSE MaxReminderMinutes
Clamp(minutes) ==
  LET low == IF minutes < MaxReminderMinutes THEN minutes
             ELSE MaxReminderMinutes
  IN IF low > 0 THEN low ELSE 0

\* one pass of the for loop of _normalize_reminders; a missing "minutes" key
\* is hasMinutes = FALSE, a missing or empty "method" is ""
CleanOverride(r) ==
  [method |-> IF r.method = "" THEN "popup" ELSE r.method,
   minutes |-> Clamp(IF r.hasMinutes THEN r.minutes ELSE DefaultMinutes)]

\* reminders is None or {}: given = FALSE or empty = TRUE
_normalize_reminders(reminders) ==
  IF ~reminders.given \/ reminders.empty
  THEN [useDefault |-> FALSE,
        overrides |-> <<[method |-> "popup", minutes |-> DefaultMinutes]>>]
  ELSE [useDefault |-> reminders.useDefault,
        overrides |-> [i \in 1..Len(reminders.overrides) |->
                         CleanOverride(reminders.overrides[i])]]

NoReminders ==
  [given |-> FALSE, empty |-> TRUE, useDefault |-> FALSE, overrides |-> <<>>]

\* ------------------------------------------------------------- payload
\* f"mcp-{int(time.time()*1000)}"
RequestId(ms) == [prefix |-> "mcp-", ms |-> ms]
NoRequestId == [prefix |-> "", ms |-> 0]

\* "if description:" and the like: None and "" both count as missing
Truthy(x) == x.given /\ x.val # <<>>

EventKeys(description, location, attendees_norm, create_meet_link) ==
  {"summary", "start", "end", "reminders"}
  \cup (IF Truthy(description) THEN {"description"} ELSE {})
  \cup (IF Truthy(location) THEN {"location"} ELSE {})
  \cup (IF Truthy(attendees_norm) THEN {"attendees"} ELSE {})
  \cup (IF create_meet_link THEN {"conferenceData"} ELSE {})

\* the conference request attached whatever create_meet_link says
BuildEvent_meet(a, start_when, end_when, attendees_norm, reminders_norm, ms) ==
  [tag |-> "event",
   keys |-> EventKeys(a.description, a.location, attendees_norm, TRUE),
   summary |-> a.summary, start |-> start_when, end |-> end_when,
   reminders |-> reminders_norm,
   description |-> IF Truthy(a.description) THEN a.description ELSE Absent,
   location |-> IF Truthy(a.location) THEN a.location ELSE Absent,
   attendees |-> attendees_norm,
   conference |-> TRUE,
   requestId |-> RequestId(ms)]

\* lines 292-308 of create_event; keys is the set of fields of the document,
\* a field outside keys holds a placeholder
BuildEvent(a, start_when, end_when, attendees_norm, reminders_norm, ms) ==
  [tag |-> "event",
   keys |-> EventKeys(a.description, a.location, attendees_norm,
                      a.create_meet_link),
   summary |-> a.summary, start |-> start_when, end |-> end_when,
   reminders |-> reminders_norm,
   description |-> IF Truthy(a.description) THEN a.description ELSE Absent,
   location |-> IF Truthy(a.location) THEN a.location ELSE Absent,
   attendees |-> attendees_norm,
   conference |-> a.create_meet_link,
   requestId |-> IF a.create_meet_link THEN RequestId(ms) ELSE NoRequestId]

\* ------------------------------------------------------- retry wrapper
Response(link) ==
  [type |-> "response", status_code |-> 0, resp_status |-> 0,
   htmlLink |-> link, n |-> 0]
HttpError(sc, rs) ==
  [type |-> "HttpError", status_code |-> sc, resp_status |-> rs,
   htmlLink |-> "", n |-> 0]
\* an exception that is not an HttpError (timeout, connection reset, ...)
OtherError ==
  [type |-> "TimeoutError", status_code |-> 0, resp_status |-> 0,
   htmlLink |-> "", n |-> 0]

_http_status_from_error(err) ==
  IF err.status_code # 0 THEN err.status_code
  ELSE IF err.resp_status # 0 THEN err.resp_status
  ELSE 0

\* 429 left out of the retryable statuses
_should_retry_only5xx(exc) ==
  IF exc.type = "HttpError"
  THEN LET status == _http_status_from_error(exc)
       IN IF status = 0 THEN FALSE
          ELSE 500 <= status /\ status < 600
  ELSE TRUE

\* upper end of the 5xx range off by one
_should_retry_upto600(exc) ==
  IF exc.type = "HttpError"
  THEN LET status == _http_status_from_error(exc)
       IN IF status = 0 THEN FALSE
          ELSE status = 429 \/ (500 <= status /\ status <= 600)
  ELSE TRUE

\* an unreadable status falls through to the default
_should_retry_nostatus(exc) ==
  IF exc.type = "HttpError"
  THEN LET status == _http_status_from_error(exc)
       IN IF status = 0 THEN TRUE
          ELSE status = 429 \/ (500 <= status /\ status < 600)
  ELSE TRUE

_should_retry(exc) ==
  IF exc.type = "HttpError"
  THEN LET status == _http_status_from_error(exc)
       IN IF status = 0 THEN FALSE
          ELSE status = 429 \/ (500 <= status /\ status < 600)
  ELSE TRUE

\* "attempt >= retries" of _inner
BudgetSpent_late(a) == a > retries
BudgetSpent(a) == a >= retries

Last(seq) == seq[Len(seq)]

\* req.execute() of _insert, and what _inner's try block does with it
Execute(t, outs) ==
  /\ pc[t] = "exec"
  /\ \E o \in outs :
       LET r == [o EXCEPT !.n = Len(outcomes[t]) + 1]
       IN /\ outcomes' = [outcomes EXCEPT ![t] = Append(@, r)]
          /\ IF o.type = "response"
             THEN /\ wres' = [wres EXCEPT ![t] = [tag |-> "return", val |-> r]]
                  /\ pc' = [pc EXCEPT ![t] = "finished"]
                  /\ UNCHANGED faults
             ELSE /\ pc' = [pc EXCEPT ![t] = "caught"]
                  /\ faults' = faults + 1
                  /\ UNCHANGED wres
  /\ UNCHANGED <<cacheVars, callVars, attempt, sleeps, slept>>

\* 2 ** attempt
RECURSIVE Pow2(_)
Pow2(n) == IF n = 0 THEN 1 ELSE 2 * Pow2(n - 1)

\* a delay that grows by base_delay per attempt instead of doubling
Delay_linear(a) == base_delay * (a + 1)

\* delay = base_delay * (2 ** attempt), in tenths of a time unit
Delay(a) == base_delay * Pow2(a)

\* jitter = 0.8 + (0.4 * (time.time() % 1)), in 1/10000; frac is the
\* fractional part of the clock in thousandths, 0..999
Jitter(frac) == 8000 + 4 * frac

\* sleep_for = delay * jitter, in 1/100000 of a time unit
SleepFor(a, frac) == Delay(a) * Jitter(frac)

\* the except clause of _inner: re-raise, or start the backoff sleep
Except(t, fracs) ==
  /\ pc[t] = "caught"
  /\ LET e == Last(outcomes[t])
     IN IF BudgetSpent(attempt[t]) \/ ~_should_retry(e)
        THEN /\ wres' = [wres EXCEPT ![t] = [tag |-> "raise", val |-> e]]
             /\ pc' = [pc EXCEPT ![t] = "finished"]
             /\ UNCHANGED <<sleeps, slept>>
        ELSE /\ pc' = [pc EXCEPT ![t] = "sleep"]
             /\ sleeps' = [sleeps EXCEPT ![t] = @ + 1]
             /\ \E f \in fracs :
                  slept' = [slept EXCEPT ![t] =
                              Append(@, SleepFor(attempt[t], f))]
             /\ UNCHANGED wres
  /\ UNCHANGED <<cacheVars, callVars, attempt, outcomes, faults>>

\* time.sleep returns; attempt += 1; the loop calls func again
Wake(t) ==
  /\ pc[t] = "sleep"
  /\ attempt' = [attempt EXCEPT ![t] = @ + 1]
  /\ pc' = [pc EXCEPT ![t] = "call"]
  /\ UNCHANGED <<cacheVars, callVars, outcomes, sleeps, slept, wres, faults>>

\* ------------------------------------------------------------- the tools
\* await asyncio.to_thread(...): the wrapper runs on a worker thread and the
\* coroutine is suspended, so nobody holds the event loop meanwhile
to_thread_inline(t) == t
to_thread(t) == 0

InWrapper(t) == pc[t] \in {"call", "check1", "fastret", "acquire", "check2",
                           "lockret", "build", "store", "slowret", "exec",
                           "caught", "sleep"}

Busy(t) == \E u \in Procs \ {t} : pc[u] \in {"exec", "sleep"}

\* create_event up to the await: normalisation, payload, dispatch
CreateEvent(t, ins) ==
  /\ pc[t] = "idle"
  /\ loopOwner = 0
  /\ \E a \in ins :
       LET n == Normalize(a)
       IN /\ args' = [args EXCEPT ![t] = a]
          /\ IF ~n.ok
             THEN /\ result' = [result EXCEPT ![t] =
                       [tag |-> "raise", type |-> n.type, msg |-> n.msg]]
                  /\ pc' = [pc EXCEPT ![t] = "done"]
                  /\ UNCHANGED <<event, loopOwner>>
             ELSE /\ event' = [event EXCEPT ![t] =
                       BuildEvent(a, n.start, n.end,
                                  _normalize_attendees(a.attendees),
                                  _normalize_reminders(a.reminders), now)]
                  /\ pc' = [pc EXCEPT ![t] = "call"]
                  /\ loopOwner' = to_thread(t)
                  /\ UNCHANGED result
  /\ overlapped' = [overlapped EXCEPT ![t] = Busy(t)]
  /\ UNCHANGED <<cacheVars, retryVars, now, pin, pout>>

\* the health tool
Health(t) ==
  /\ pc[t] = "idle"
  /\ loopOwner = 0
  /\ args' = [args EXCEPT ![t] = [tag |-> "health"]]
  /\ result' = [result EXCEPT ![t] = [tag |-> "return", msg |-> <<"ok">>]]
  /\ overlapped' = [overlapped EXCEPT ![t] = Busy(t)]
  /\ pc' = [pc EXCEPT ![t] = "done"]
  /\ UNCHANGED <<cacheVars, retryVars, event, loopOwner, now, pin, pout>>

\* create_event after the await: the result string or the wrapped error
Finish(t) ==
  /\ pc[t] = "finished"
  /\ loopOwner \in {0, t}
  /\ LET w == wres[t]
     IN result' = [result EXCEPT ![t] =
          IF w.tag = "return"
          THEN [tag |-> "return",
                msg |-> <<"Event created: ",
                          IF w.val.htmlLink # "" THEN w.val.htmlLink
                          ELSE "No link available">>]
          ELSE IF w.val.type = "HttpError"
          THEN [tag |-> "raise", type |-> "Exception",
                msg |-> <<"Failed to create event: ", "Google API error. ">>]
          ELSE [tag |-> "raise", type |-> "Exception",
                msg |-> <<"Failed to create event: ", w.val.type>>]]
  /\ loopOwner' = 0
  /\ pc' = [pc EXCEPT ![t] = "done"]
  /\ UNCHANGED <<cacheVars, retryVars, args, event, overlapped, now, pin,
                 pout>>

\* the clock reaches the next millisecond
Tick ==
  /\ now < MaxClock
  /\ now' = now + 1
  /\ UNCHANGED <<cacheVars, retryVars, pc, args, event, result, overlapped,
                 loopOwner, pin, pout>>

InitCommon ==
  /\ cache = 0
  /\ lock = 0
  /\ builds = 0
  /\ built = [t \in Procs |-> 0]
  /\ svc = [t \in Procs |-> 0]
  /\ calls = [t \in Procs |-> 0]
  /\ args = [t \in Procs |-> None]
  /\ event = [t \in Procs |-> None]
  /\ attempt = [t \in Procs |-> 0]
  /\ outcomes = [t \in Procs |-> <<>>]
  /\ sleeps = [t \in Procs |-> 0]
  /\ slept = [t \in Procs |-> <<>>]
  /\ wres = [t \in Procs |-> None]
  /\ result = [t \in Procs |-> None]
  /\ overlapped = [t \in Procs |-> FALSE]
  /\ loopOwner = 0
  /\ faults = 0
  /\ now = 0

\* NumThreads worker threads are each about to run _insert: no handle yet
InitService ==
  /\ InitCommon
  /\ pin = None
  /\ pout = None
  /\ pc = [t \in Procs |-> IF t \in Threads THEN "call" ELSE "idle"]

NextService == \E t \in Threads : GetService(t, FALSE) \/ Recall(t)

SpecService == InitService /\ [][NextService]_vars

\* ------------------------------------------------- one invocation, any input
T0900 == TimeStr(1, 9, 9)
OneTimes ==
  { <<T0900, TimeStr(1, 10, 9)>>, <<T0900, TimeStr(1, 8, 9)>>,
    <<T0900, T0900>>, <<DateStr(1), DateStr(1)>>,
    <<DateStr(1), TimeStr(1, 10, 9)>>, <<JunkStr, T0900>>,
    <<T0900, JunkStr>>, <<BadDateStr, DateStr(1)>>,
    <<BadDateStr, T0900>>, <<NaiveTimeStr(1, 9), TimeStr(1, 1, 0)>> }
OneInputs ==
  { [tag |-> "create_event", summary |-> <<"s">>, start_time |-> p[1],
     end_time |-> p[2], description |-> Absent, location |-> Absent,
     attendees |-> Absent, reminders |-> NoReminders,
     timezone_str |-> DEFAULT_TZ, create_meet_link |-> m] :
       p \in OneTimes, m \in BOOLEAN }

Statuses == {400, 401, 403, 404, 409, 428, 429, 430, 499, 500, 599, 600}
AllOutcomes ==
  {Response("https://calendar/ev"), Response(""), OtherError,
   HttpError(0, 0), HttpError(0, 503), HttpError(0, 404)}
  \cup {HttpError(s, s) : s \in Statuses}

InitTool ==
  /\ InitCommon
  /\ pin = None
  /\ pout = None
  /\ pc = [t \in Procs |-> "idle"]

\* readings of time.time() % 1, in thousandths
OneFrac == {0}

Worker(t, outs, mayFail) ==
  \/ GetService(t, mayFail)
  \/ Execute(t, outs)
  \/ Except(t, OneFrac)
  \/ Wake(t)

NextOne ==
  \E t \in OneTask :
    \/ CreateEvent(t, OneInputs)
    \/ Health(t)
    \/ Worker(t, AllOutcomes, TRUE)
    \/ Finish(t)

SpecOne == InitTool /\ [][NextOne]_vars

\* ------------------------------------------------- concurrent invocations
ConcInputs ==
  { [tag |-> "create_event", summary |-> <<"s">>, start_time |-> T0900,
     end_time |-> TimeStr(1, 10, 9), description |-> Absent,
     location |-> Absent, attendees |-> Absent, reminders |-> NoReminders,
     timezone_str |-> DEFAULT_TZ, create_meet_link |-> TRUE] }
ConcOutcomes == {Response("https://calendar/ev"), HttpError(429, 429)}
ConcSuccess == {Response("https://calendar/ev")}

\* the remote service fails at most MaxFaults times in a run
ExecuteConc(t) ==
  \/ faults < MaxFaults /\ Execute(t, ConcOutcomes)
  \/ faults >= MaxFaults /\ Execute(t, ConcSuccess)

NextConc ==
  \/ \E t \in Tasks :
       \/ CreateEvent(t, ConcInputs)
       \/ Health(t)
       \/ GetService(t, FALSE)
       \/ ExecuteConc(t)
       \/ Except(t, OneFrac)
       \/ Wake(t)
       \/ Finish(t)
  \/ Tick

SpecConc == InitTool /\ [][NextConc]_vars

\* --------------------------------------- one invocation, any clock reading
\* readings of time.time() % 1 at the except clause, in thousandths: the
\* least, a middle and the greatest
Fracs == {0, 500, 999}
BackoffOutcomes ==
  {Response("https://calendar/ev"), OtherError, HttpError(429, 429),
   HttpError(503, 503), HttpError(404, 404)}

NextBackoff ==
  \E t \in OneTask :
    \/ CreateEvent(t, ConcInputs)
    \/ GetService(t, FALSE)
    \/ Execute(t, BackoffOutcomes)
    \/ Except(t, Fracs)
    \/ Wake(t)
    \/ Finish(t)

SpecBackoff == InitTool /\ [][NextBackoff]_vars

\* ------------------------------- concurrent invocations, build may raise
NextFail ==
  \E t \in Tasks :
    \/ CreateEvent(t, ConcInputs)
    \/ GetService(t, TRUE)
    \/ Execute(t, ConcSuccess)
    \/ Except(t, OneFrac)
    \/ Wake(t)
    \/ Finish(t)

SpecFail == InitTool /\ [][NextFail]_vars

\* ------------------------------------------- helpers called on their own
SpanDays == {1, 2}
SpanHours == {0, 5, 20}
SpanStrings ==
  {DateStr(d) : d \in 1..LastDay} \cup {BadDateStr, JunkStr}
  \cup {TimeStr(d, h, off) : d \in SpanDays, h \in SpanHours, off \in {0, 9}}
  \cup {ZuluTimeStr(d, h) : d \in SpanDays, h \in SpanHours}
  \cup {NaiveTimeStr(d, h) : d \in SpanDays, h \in SpanHours}
SpanZones == {"Asia/Seoul", "UTC", ""}
SpanInputs ==
  { [op |-> "span", start_time |-> a, end_time |-> b, timezone_str |-> z] :
      a \in SpanStrings, b \in SpanStrings, z \in SpanZones }

\* lines 269-274 of create_event on the given strings
ApplySpan ==
  /\ pin.op = "span"
  /\ pout = None
  /\ pout' = Normalize(pin)
  /\ UNCHANGED <<cacheVars, retryVars, pc, args, event, result, overlapped,
                 loopOwner, now, pin>>

\* sequences over a set, up to a length
SeqsUpTo(S, n) == UNION {[1..k -> S] : k \in 0..n}

BaseArgs ==
  [tag |-> "create_event", summary |-> <<"s">>, start_time |-> T0900,
   end_time |-> TimeStr(1, 10, 9), description |-> Absent,
   location |-> Absent, attendees |-> Absent, reminders |-> NoReminders,
   timezone_str |-> DEFAULT_TZ, create_meet_link |-> FALSE]
BaseSpan == Normalize(BaseArgs)

AttendeeEntries ==
  { <<>>, <<" ">>, <<" ", " ">>, <<"a">>, <<" ", "a">>, <<"a", " ">>,
    <<"b">>, <<"a", " ", "b">> }
AttendeesInputs ==
  { [op |-> "attendees", attendees |-> Absent] }
  \cup { [op |-> "attendees", attendees |-> Given(l)] :
           l \in SeqsUpTo(AttendeeEntries, MaxAttendees) }

\* lines 276 and 292-303 of create_event on the given attendees
ApplyAttendees ==
  /\ pin.op = "attendees"
  /\ pout = None
  /\ LET norm == _normalize_attendees(pin.attendees)
     IN pout' = [norm |-> norm,
                 event |-> BuildEvent(BaseArgs, BaseSpan.start, BaseSpan.end,
                                      norm, _normalize_reminders(NoReminders),
                                      now)]
  /\ UNCHANGED <<cacheVars, retryVars, pc, args, event, result, overlapped,
                 loopOwner, now, pin>>

OverrideMinutes == {0 - 5, 0, 10, MaxReminderMinutes, MaxReminderMinutes + 1}
OverrideEntries ==
  { [method |-> m, hasMinutes |-> TRUE, minutes |-> n] :
      m \in {"", "email"}, n \in OverrideMinutes }
  \cup { [method |-> m, hasMinutes |-> FALSE, minutes |-> 0] :
           m \in {"", "email"} }
RemindersInputs ==
  { [op |-> "reminders", reminders |-> NoReminders],
    [op |-> "reminders", reminders |-> [NoReminders EXCEPT !.given = TRUE]] }
  \cup { [op |-> "reminders",
          reminders |-> [given |-> TRUE, empty |-> FALSE, useDefault |-> u,
                         overrides |-> o]] :
           u \in BOOLEAN, o \in SeqsUpTo(OverrideEntries, MaxOverrides) }

\* line 277 of create_event on the given reminders
ApplyReminders ==
  /\ pin.op = "reminders"
  /\ pout = None
  /\ pout' = _normalize_reminders(pin.reminders)
  /\ UNCHANGED <<cacheVars, retryVars, pc, args, event, result, overlapped,
                 loopOwner, now, pin>>

OptionalTexts == {Absent, Given(<<>>), Given(<<"d">>)}
PayloadInputs ==
  { [op |-> "payload",
     a |-> [BaseArgs EXCEPT !.description = d, !.location = l,
                            !.create_meet_link = m],
     attendees_norm |-> n, ms1 |-> t1, ms2 |-> t2] :
      d \in OptionalTexts, l \in OptionalTexts, m \in BOOLEAN,
      n \in {Absent, Given(<<[email |-> <<"a">>]>>)},
      t1 \in 0..MaxClock, t2 \in 0..MaxClock }

\* lines 292-308 of create_event, run twice on the same normalised inputs at
\* two readings of the clock
ApplyPayload ==
  /\ pin.op = "payload"
  /\ pout = None
  /\ pout' = [first |-> BuildEvent(pin.a, BaseSpan.start, BaseSpan.end,
                                   pin.attendees_norm,
                                   _normalize_reminders(NoReminders), pin.ms1),
              second |-> BuildEvent(pin.a, BaseSpan.start, BaseSpan.end,
                                    pin.attendees_norm,
                                    _normalize_reminders(NoReminders), pin.ms2)]
  /\ UNCHANGED <<cacheVars, retryVars, pc, args, event, result, overlapped,
                 loopOwner, now, pin>>

PureInputs ==
  SpanInputs \cup AttendeesInputs \cup RemindersInputs \cup PayloadInputs

InitPure ==
  /\ InitCommon
  /\ pc = [t \in Procs |-> "idle"]
  /\ pin \in PureInputs
  /\ pout = None

NextPure ==
  \/ ApplySpan
  \/ ApplyAttendees
  \/ ApplyReminders
  \/ ApplyPayload

SpecPure == InitPure /\ [][NextPure]_vars

\* ===================================================================
\* Properties
\* ===================================================================

\* C1: N threads calling get_calendar_service concurrently while the cache
\* is empty: build is executed exactly once and every caller gets the same
\* handle instance.
C1_SingleConstruction ==
  /\ builds <= 1
  /\ \A t \in Threads :
       pc[t] = "exec" => /\ builds = 1
                         /\ svc[t] # 0
                         /\ svc[t] = cache
  /\ \A t, u \in Threads :
       pc[t] = "exec" /\ pc[u] = "exec" => svc[t] = svc[u]

\* all threads saw the empty cache; one has built, the others wait on the lock
C1_Witness ==
  \E h \in Threads :
    /\ pc[h] = "slowret"
    /\ builds = 1
    /\ \A u \in Threads \ {h} : pc[u] = "acquire" /\ calls[u] = 1

Is429(e) == e.type = "HttpError" /\ e.status_code = 429

\* C2: 429 on the first k attempts (k <= 3) and success on attempt k+1: the
\* wrapper returns that success after exactly k+1 attempts; while only 429s
\* have been seen and the budget is not spent, the wrapper has not raised.
C2_RetryThenSuccess ==
  \A t \in OneTask :
    LET o == outcomes[t]
    IN /\ \A k \in 0..retries :
            ( /\ Len(o) >= k + 1
              /\ \A i \in 1..k : Is429(o[i])
              /\ o[k + 1].type = "response" )
            => /\ Len(o) = k + 1
               /\ wres[t] = [tag |-> "return", val |-> o[k + 1]]
               /\ sleeps[t] = k
       /\ ( /\ Len(o) \in 1..retries
            /\ \A i \in 1..Len(o) : Is429(o[i]) )
          => wres[t] = None

C2_Witness ==
  \E t \in OneTask :
    /\ Len(outcomes[t]) = retries + 1
    /\ \A i \in 1..retries : Is429(outcomes[t][i])
    /\ wres[t] = [tag |-> "return", val |-> outcomes[t][retries + 1]]

\* the status an error carries, 0 when it carries none
CarriedStatus(e) ==
  IF e.type # "HttpError" THEN 0
  ELSE IF e.status_code # 0 THEN e.status_code ELSE e.resp_status

RetryableStatus(s) == s = 429 \/ (500 <= s /\ s < 600)

RetryableError(e) ==
  \/ e.type \notin {"HttpError", "response"}
  \/ e.type = "HttpError" /\ RetryableStatus(CarriedStatus(e))

\* C3: when every attempt fails with a retryable error the wrapper makes
\* exactly 4 attempts and raises the error of the 4th attempt itself; there
\* is never a 5th attempt.
C3_ExhaustionRaisesLast ==
  \A t \in OneTask :
    LET o == outcomes[t]
    IN /\ Len(o) <= retries + 1
       /\ calls[t] <= retries + 1
       /\ (\A i \in 1..Len(o) : RetryableError(o[i]))
            => /\ wres[t] # None
                 => /\ Len(o) = retries + 1
                    /\ wres[t] = [tag |-> "raise", val |-> o[retries + 1]]
                    /\ wres[t].val.n = retries + 1
               /\ pc[t] = "done" /\ o # <<>> => Len(o) = retries + 1

C3_Witness ==
  \E t \in OneTask :
    /\ Len(outcomes[t]) = retries + 1
    /\ \A i \in 1..(retries + 1) : RetryableError(outcomes[t][i])
    /\ wres[t] = [tag |-> "raise", val |-> outcomes[t][retries + 1]]

\* C4: an error carrying status s is retried iff s = 429 or 500 <= s < 600;
\* any other status is raised at once, on whichever attempt, with no backoff
\* sleep and no further attempt.
C4_StatusClassification ==
  \A t \in OneTask :
    LET o == outcomes[t]
    IN \A i \in 1..Len(o) :
         LET s == CarriedStatus(o[i])
         IN (o[i].type = "HttpError" /\ s # 0) =>
              IF RetryableStatus(s)
              THEN \* retried while the budget lasts
                   i <= retries =>
                     /\ wres[t] = None \/ Len(o) > i
                     /\ (i < Len(o) \/ pc[t] # "caught") => sleeps[t] >= i
              ELSE \* terminal
                   /\ i = Len(o)
                   /\ sleeps[t] = i - 1
                   /\ calls[t] = i
                   /\ pc[t] = "caught"
                        \/ wres[t] = [tag |-> "raise", val |-> o[i]]

\* a 404 on the third attempt, raised without a third sleep
C4_Witness ==
  \E t \in OneTask :
    /\ Len(outcomes[t]) = 3
    /\ CarriedStatus(outcomes[t][3]) = 404
    /\ CarriedStatus(outcomes[t][1]) = 500
    /\ wres[t] = [tag |-> "raise", val |-> outcomes[t][3]]
    /\ sleeps[t] = 2

NoStatus(e) == e.type # "response" /\ CarriedStatus(e) = 0

\* C5 as stated: every error without an extractable status code, an
\* HttpError with an unreadable status included, is followed by another
\* attempt while fewer than 4 attempts have been made.
C5_Original ==
  \A t \in OneTask :
    LET o == outcomes[t]
    IN (o # <<>> /\ Len(o) <= retries /\ NoStatus(Last(o)))
         => wres[t] = None

\* C5 amended: an exception that is not an HttpError is followed by another
\* attempt while fewer than 4 attempts have been made; an HttpError whose
\* status cannot be read is raised at once, with no sleep and no new attempt.
C5_Amended ==
  \A t \in OneTask :
    LET o == outcomes[t]
    IN \A i \in 1..Len(o) :
         /\ (o[i].type \notin {"HttpError", "response"} /\ i <= retries)
              => /\ wres[t] = None \/ Len(o) > i
                 /\ (i < Len(o) \/ pc[t] # "caught") => sleeps[t] >= i
         /\ (o[i].type = "HttpError" /\ CarriedStatus(o[i]) = 0)
              => /\ i = Len(o)
                 /\ sleeps[t] = i - 1
                 /\ pc[t] = "caught"
                      \/ wres[t] = [tag |-> "raise", val |-> o[i]]

C5_Witness ==
  \E t \in OneTask :
    /\ Len(outcomes[t]) = 3
    /\ outcomes[t][1].type = "BuildError"
    /\ outcomes[t][2].type = "TimeoutError"
    /\ outcomes[t][3].type = "HttpError"
    /\ CarriedStatus(outcomes[t][3]) = 0
    /\ wres[t] = [tag |-> "raise", val |-> outcomes[t][3]]

NormalizationFails(a) ==
  LET sw == _parse_when(a.start_time, EffectiveTz(a.timezone_str))
      ew == _parse_when(a.end_time, EffectiveTz(a.timezone_str))
  IN ~sw.ok \/ ~ew.ok \/ ~_ensure_end_after_start(sw, ew).ok

\* C6: when _parse_when or _ensure_end_after_start fails for the given
\* start_time / end_time, the invocation makes no insert call, no retry
\* attempt and triggers no construction of the service handle.
C6_NormalizationBeforeNetwork ==
  \A t \in OneTask :
    (args[t].tag = "create_event" /\ NormalizationFails(args[t]))
      => /\ calls[t] = 0
         /\ outcomes[t] = <<>>
         /\ attempt[t] = 0 /\ sleeps[t] = 0
         /\ builds = 0 /\ cache = 0
         /\ event[t] = None
         /\ pc[t] = "done"

C6_Witness ==
  \E t \in OneTask :
    /\ args[t].tag = "create_event"
    /\ args[t].start_time = T0900
    /\ args[t].end_time = TimeStr(1, 8, 9)
    /\ result[t].tag = "raise"
    /\ pc[t] = "done"

\* C7: every create_event invocation ends either with "Event created: <link>"
\* or with an error whose message starts with "Failed to create event: ".
C7_Claim ==
  \A t \in OneTask :
    (pc[t] = "done" /\ args[t].tag = "create_event")
      => \/ result[t].tag = "return" /\ result[t].msg[1] = "Event created: "
         \/ result[t].tag = "raise"
              /\ result[t].msg[1] = "Failed to create event: "

\* C8: two different create_event invocations with create_meet_link = true
\* carry different conference requestId values.
C8_Claim ==
  \A t, u \in Tasks :
    (t # u /\ event[t] # None /\ event[u] # None
       /\ event[t].conference /\ event[u].conference)
      => event[t].requestId # event[u].requestId

\* C9: while an invocation is in its network call or backoff sleep the event
\* loop is free, so other invocations can start and complete; an invocation
\* that reached the wrapper has a result only after the wrapper ended.
C9_LoopNotBlocked ==
  /\ \A t \in Tasks :
       InWrapper(t) =>
         /\ loopOwner = 0
         /\ \A u \in Tasks \ {t} :
              /\ pc[u] = "idle" => ENABLED Health(u)
              /\ pc[u] = "idle" => ENABLED CreateEvent(u, ConcInputs)
              /\ pc[u] = "finished" => ENABLED Finish(u)
  /\ \A t \in Tasks :
       (event[t] # None /\ result[t] # None)
         => /\ pc[t] = "done"
            /\ wres[t] # None
            /\ wres[t].val = Last(outcomes[t])
            /\ wres[t].tag = "raise"
                 => BudgetSpent(attempt[t]) \/ ~RetryableError(wres[t].val)

\* one invocation still sleeps or calls; another create_event that started
\* meanwhile is already done
C9_Witness ==
  \E t, u \in Tasks :
    /\ t # u
    /\ pc[t] = "sleep"
    /\ pc[u] = "done"
    /\ overlapped[u]
    /\ args[u].tag = "create_event"
    /\ result[u].tag = "return"

\* C10: once the cache holds a handle it is never reassigned or cleared, no
\* further build is executed, and every return of get_calendar_service
\* hands out the cached instance.
C10_NeverReassigned ==
  [][cache # 0 =>
       /\ cache' = cache
       /\ builds' = builds
       /\ \A t \in Threads :
            (pc[t] # "exec" /\ pc'[t] = "exec") => svc'[t] = cache
    ]_vars

\* a second call of a thread returned after the construction
C10_Witness ==
  \E t \in Threads :
    /\ cache # 0
    /\ calls[t] >= 2
    /\ pc[t] = "exec"
    /\ svc[t] = cache

\* a valid YYYY-MM-DD string
ValidDate(x) == x.len = 10 /\ x.hyphens = 2 /\ ~x.hasT /\ x.ymd # 0

AllDayRepair(lastStart) ==
  (pin.op = "span" /\ pout # None
     /\ ValidDate(pin.start_time) /\ ValidDate(pin.end_time)
     /\ pin.start_time.ymd <= lastStart)
    => /\ pout.ok
       /\ pout.start.key = "date" /\ pout.start.val = pin.start_time
       /\ pout.end.key = "date"
       /\ IF pin.end_time.ymd <= pin.start_time.ymd
          THEN pout.end.val.ymd = pin.start_time.ymd + 1
          ELSE pout.end.val = pin.end_time

ZoneOffset(z) == IF z = "UTC" THEN 0 ELSE 9

\* a parseable timestamp that is not an all-day date
Timed(x) == x.hasT /\ x.iso.ok

\* the instant a time string denotes in a call made with timezone z
ClaimInstant(x, z) ==
  IF Timed(x)
  THEN x.iso.wall - (IF x.iso.aware THEN x.iso.off ELSE ZoneOffset(z))
  ELSE x.ymd * 24 - ZoneOffset(z)

InvalidSpan(r) ==
  ~r.ok /\ r.type = "ValueError"
        /\ r.msg = <<"end_time must be after start_time">>

\* C12: two parseable timed strings whose end instant is not after the start
\* instant make normalisation fail with "end_time must be after start_time",
\* however each is written (offset, Z, no offset).
C12_Claim ==
  (pin.op = "span" /\ pout # None
     /\ Timed(pin.start_time) /\ Timed(pin.end_time)
     /\ ClaimInstant(pin.end_time, EffectiveTz(pin.timezone_str))
          <= ClaimInstant(pin.start_time, EffectiveTz(pin.timezone_str)))
    => InvalidSpan(pout)

\* C13: in a mixed span the all-day end counts as local midnight in the
\* timezone of the call; the span is refused exactly when the end instant is
\* not after the start instant, and an accepted span keeps both variants.
C13_Claim ==
  (pin.op = "span" /\ pout # None
     /\ \/ ValidDate(pin.start_time) /\ Timed(pin.end_time)
        \/ Timed(pin.start_time) /\ ValidDate(pin.end_time))
    => LET z == EffectiveTz(pin.timezone_str)
       IN IF ClaimInstant(pin.end_time, z) <= ClaimInstant(pin.start_time, z)
          THEN InvalidSpan(pout)
          ELSE /\ pout.ok
               /\ pout.start.val = pin.start_time
               /\ pout.end.val = pin.end_time

\* neither a valid YYYY-MM-DD date nor a parseable ISO-8601 timestamp
Unparseable(x) == x.ymd = 0 /\ ~x.iso.ok

\* C17: a start_time or end_time that is neither a valid date nor a parseable
\* timestamp makes normalisation fail with "Invalid ISO time format",
\* whichever end it is on and whatever the other end is.
C17_Claim ==
  (pin.op = "span" /\ pout # None
     /\ (Unparseable(pin.start_time) \/ Unparseable(pin.end_time)))
    => /\ ~pout.ok
       /\ pout.type = "ValueError"
       /\ pout.msg[1] = "Invalid ISO time format: "

\* an entry that is empty or holds blanks only
Blank(e) == \A i \in 1..Len(e) : e[i] = " "

\* an entry without its leading and trailing blanks
Trimmed(e) ==
  LET first == CHOOSE i \in 1..Len(e) :
                 e[i] # " " /\ \A k \in 1..(i - 1) : e[k] = " "
      last == CHOOSE j \in 1..Len(e) :
                e[j] # " " /\ \A k \in (j + 1)..Len(e) : e[k] = " "
  IN SubSeq(e, first, last)

\* position in the list of its k-th entry that is not blank
KeptIndex(list, k) ==
  CHOOSE i \in 1..Len(list) :
    /\ ~Blank(list[i])
    /\ Cardinality({j \in 1..(i - 1) : ~Blank(list[j])}) = k - 1

\* C14: the result holds the non-blank entries, trimmed and in their order;
\* an absent, empty or all-blank input gives None, never an empty list, and
\* the payload then has no attendees field.
C14_AttendeesNormalized ==
  (pin.op = "attendees" /\ pout # None) =>
    LET list == pin.attendees.val
        kept == {i \in 1..Len(list) : ~Blank(list[i])}
    IN /\ pout.norm.given => pout.norm.val # <<>>
       /\ pout.norm.given <=> (pin.attendees.given /\ kept # {})
       /\ pout.norm.given =>
            /\ Len(pout.norm.val) = Cardinality(kept)
            /\ \A k \in 1..Len(pout.norm.val) :
                 pout.norm.val[k].email = Trimmed(list[KeptIndex(list, k)])
       /\ "attendees" \in pout.event.keys <=> pout.norm.given
       /\ pout.norm.given => pout.event.attendees = pout.norm

C14_Witness ==
  /\ pin.op = "attendees"
  /\ pin.attendees = Given(<< <<" ", " ">>, <<" ", "a">> >>)
  /\ pout # None
  /\ pout.norm = Given(<<[email |-> <<"a">>]>>)

\* C15: every override of the normalised policy has minutes in 0..40320:
\* above 40320 gives 40320, below 0 gives 0, in range is unchanged; number
\* and order of the overrides are kept; without reminders the policy is
\* {useDefault: false, overrides: [{method: popup, minutes: 10}]}.
C15_RemindersClamped ==
  (pin.op = "reminders" /\ pout # None) =>
    LET in == pin.reminders
    IN /\ \A i \in 1..Len(pout.overrides) :
            pout.overrides[i].minutes \in 0..40320
       /\ (in.given /\ ~in.empty) =>
            /\ Len(pout.overrides) = Len(in.overrides)
            /\ \A i \in 1..Len(in.overrides) :
                 LET r == in.overrides[i]
                     m == pout.overrides[i].minutes
                 IN /\ r.method # "" => pout.overrides[i].method = r.method
                    /\ r.hasMinutes =>
                         /\ r.minutes > 40320 => m = 40320
                         /\ r.minutes < 0 => m = 0
                         /\ r.minutes \in 0..40320 => m = r.minutes
       /\ ~in.given =>
            pout = [useDefault |-> FALSE,
                    overrides |-> <<[method |-> "popup", minutes |-> 10]>>]

C15_Witness ==
  /\ pin.op = "reminders"
  /\ pout # None
  /\ Len(pin.reminders.overrides) = 2
  /\ pin.reminders.overrides[1].minutes = 40321
  /\ pin.reminders.overrides[2].minutes < 0
  /\ pin.reminders.overrides[2].hasMinutes
  /\ pout.overrides[1].minutes = 40320
  /\ pout.overrides[2].minutes = 0

\* C16: two builds from the same normalised inputs differ at most in the
\* conference requestId; summary, start, end and reminders are always there,
\* description / location / attendees only when the input is present, and
\* the conference request exactly when create_meet_link is true.
C16_PayloadShape ==
  (pin.op = "payload" /\ pout # None) =>
    /\ [pout.first EXCEPT !.requestId = NoRequestId]
         = [pout.second EXCEPT !.requestId = NoRequestId]
    /\ \A e \in {pout.first, pout.second} :
         /\ {"summary", "start", "end", "reminders"} \subseteq e.keys
         /\ e.summary = pin.a.summary
         /\ e.reminders = [useDefault |-> FALSE,
                           overrides |-> <<[method |-> "popup",
                                            minutes |-> 10]>>]
         /\ "description" \in e.keys =>
              pin.a.description.given /\ e.description = pin.a.description
         /\ "location" \in e.keys =>
              pin.a.location.given /\ e.location = pin.a.location
         /\ "attendees" \in e.keys =>
              pin.attendees_norm.given /\ e.attendees = pin.attendees_norm
         /\ pin.a.description = Given(<<"d">>) => "description" \in e.keys
         /\ pin.a.location = Given(<<"d">>) => "location" \in e.keys
         /\ pin.attendees_norm.given => "attendees" \in e.keys
         /\ "conferenceData" \in e.keys <=> pin.a.create_meet_link
    /\ pin.a.create_meet_link =>
         /\ pout.first.requestId = [prefix |-> "mcp-", ms |-> pin.ms1]
         /\ pout.second.requestId = [prefix |-> "mcp-", ms |-> pin.ms2]

C16_Witness ==
  /\ pin.op = "payload"
  /\ pout # None
  /\ pin.a.create_meet_link
  /\ pin.a.description = Given(<<"d">>)
  /\ pin.a.location = Absent
  /\ pout.first.requestId # pout.second.requestId
  /\ pout.first.keys = {"summary", "start", "end", "reminders",
                        "description", "conferenceData"}

\* the least and the greatest sleep before retry number k, in 1/100000 of a
\* time unit: 0.48..0.72, 0.96..1.44, 1.92..2.88
SleepRange == << <<48000, 72000>>, <<96000, 144000>>, <<192000, 288000>> >>

RECURSIVE SumSeq(_)
SumSeq(q) == IF q = <<>> THEN 0 ELSE Head(q) + SumSeq(Tail(q))

\* C18: one backoff sleep between each failed retryable attempt and the next
\* attempt, none after the final attempt or after a terminal error; the sleep
\* before retry k lies in [0.48, 0.72] * 2^k and the sleeps of one invocation
\* add up to at most 5.04 time units.
C18_BackoffSleeps ==
  \A t \in OneTask :
    /\ sleeps[t] = Len(slept[t])
    /\ Len(slept[t]) <= 3
    /\ Len(slept[t]) <= Len(outcomes[t])
    \* attempt number k + 1 is made only after sleep number k
    /\ Len(outcomes[t]) <= Len(slept[t]) + 1
    /\ (pc[t] \in {"caught", "finished", "done"} /\ outcomes[t] # <<>>) =>
         Len(outcomes[t]) = Len(slept[t]) + 1
    /\ pc[t] \in {"sleep", "call", "exec"} => Len(outcomes[t]) = Len(slept[t])
    /\ \A k \in 1..Len(slept[t]) :
         /\ outcomes[t][k].type # "response"
         /\ outcomes[t][k].type = "HttpError" =>
              LET st == outcomes[t][k].status_code
              IN st = 429 \/ (500 <= st /\ st <= 599)
         /\ slept[t][k] >= SleepRange[k][1]
         /\ slept[t][k] <= SleepRange[k][2]
    /\ SumSeq(slept[t]) <= 504000

C18_Witness ==
  /\ pc[1] = "finished"
  /\ wres[1].tag = "raise"
  /\ Len(outcomes[1]) = 4
  /\ outcomes[1][4].type = "HttpError"
  /\ slept[1] = <<71976, 96000, 240000>>

\* the attempts of an invocation that ended in a raising build
BuildFailures(t) ==
  {i \in 1..Len(outcomes[t]) : outcomes[t][i].type = "BuildError"}

RECURSIVE FailuresUpTo(_)
FailuresUpTo(n) ==
  IF n = 0 THEN 0 ELSE Cardinality(BuildFailures(n)) + FailuresUpTo(n - 1)

\* C19: a raising build leaves the cache empty and the lock free, and the next
\* call builds again; inside create_event the failure is retried like an error
\* that is not an HttpError, with a new call of get_calendar_service on every
\* attempt, at most 4 per invocation.
C19_BuildFailure ==
  /\ lock # 0 =>
       pc[lock] \in {"check2", "lockret", "build", "store", "slowret"}
  /\ cache # 0 => \E t \in Tasks : built[t] = cache
  /\ builds = FailuresUpTo(NumTasks)
                + (IF \E t \in Tasks : built[t] # 0 THEN 1 ELSE 0)
  /\ \A t \in Tasks :
       /\ calls[t] <= 4
       /\ Len(outcomes[t]) <= calls[t]
       /\ calls[t] <= Len(outcomes[t]) + 1
       /\ calls[t] = attempt[t] + (IF pc[t] \in {"idle", "call"} THEN 0 ELSE 1)
            \/ (pc[t] = "done" /\ calls[t] = 0)
       /\ \A i \in BuildFailures(t) :
            /\ i <= 3 =>
                 /\ wres[t] = None \/ Len(outcomes[t]) > i
                 /\ (i < Len(outcomes[t]) \/ pc[t] # "caught") => sleeps[t] >= i
            /\ i = 4 =>
                 \/ pc[t] = "caught"
                 \/ wres[t] = [tag |-> "raise", val |-> outcomes[t][4]]
       /\ (result[t] # None /\ wres[t] # None /\ wres[t].tag = "raise") =>
            result[t] = [tag |-> "raise", type |-> "Exception",
                         msg |-> <<"Failed to create event: ", "BuildError">>]

C19_Witness ==
  /\ BuildFailures(1) = 1..4
  /\ wres[1] = [tag |-> "raise", val |-> outcomes[1][4]]
  /\ lock = 0
  /\ builds = 5
  /\ cache = 5
  /\ built[2] = 5
  /\ result[2] # None
  /\ result[2].tag = "return"

====
